---------------------------- MODULE Spec2Model ----------------------------
(***************************************************************************)
(* Model of foorensic/ddns-server: the two update handlers                 *)
(*   "async" : src/api.py          update_record       (FastAPI, asyncio)  *)
(*   "sync"  : src/ddns-api/api.py ResourceHandler.get (Flask, threads)    *)
(* together with the shared update file <tmp>/nsupdate.txt, the child      *)
(* process /usr/bin/nsupdate each request launches, and the zone that the  *)
(* child updates.                                                          *)
(*                                                                         *)
(* Strings.  A Python str is modelled as a sequence of characters.  A      *)
(* character is either one of the characters the code treats specially     *)
(* (double quote, backslash, space, line feed, apostrophe, dot, comma,     *)
(* hyphen) or a "word": an opaque run of ordinary characters, written as   *)
(* one TLA+ string ("update", "h1", "10.0.0.5").  Every string operation   *)
(* of the code (strip, replace, split, concatenation, formatting) is       *)
(* computed on these sequences.                                            *)
(***************************************************************************)
EXTENDS Integers, Sequences, FiniteSets, TLC

DQ == "\""
BS == "\\"
SP == " "
NL == "\n"
AP == "'"
DOT == "."
COMMA == ","
HYPHEN == "-"

(* str.strip() without argument strips whitespace. *)
Whitespace == {SP, NL}

RECURSIVE LStrip(_, _)
LStrip(s, cs) ==
  IF s # <<>> /\ Head(s) \in cs THEN LStrip(Tail(s), cs) ELSE s

RECURSIVE RStrip(_, _)
RStrip(s, cs) ==
  IF s # <<>> /\ s[Len(s)] \in cs THEN RStrip(SubSeq(s, 1, Len(s) - 1), cs) ELSE s

(* str.strip(chars) *)
Strip(s, cs) == RStrip(LStrip(s, cs), cs)

(* str.replace(c, by) for a one-character pattern c *)
RECURSIVE Replace(_, _, _)
Replace(s, c, by) ==
  IF s = <<>> THEN <<>>
  ELSE (IF Head(s) = c THEN by ELSE <<Head(s)>>) \o Replace(Tail(s), c, by)

(* str.split(c): "".split(",") is [""], the pieces keep their order *)
RECURSIVE SplitAcc(_, _, _)
SplitAcc(s, c, cur) ==
  IF s = <<>> THEN <<cur>>
  ELSE IF Head(s) = c THEN <<cur>> \o SplitAcc(Tail(s), c, <<>>)
  ELSE SplitAcc(Tail(s), c, Append(cur, Head(s)))

Split(s, c) == SplitAcc(s, c, <<>>)

(* sep.join(parts) *)
RECURSIVE Join(_, _)
Join(parts, sep) ==
  IF parts = <<>> THEN <<>>
  ELSE IF Len(parts) = 1 THEN parts[1]
  ELSE parts[1] \o sep \o Join(Tail(parts), sep)

(* The concatenation of a sequence of strings. *)
Concat(parts) == Join(parts, <<>>)

(* Whether the string needle occurs in the string hay. *)
Contains(hay, needle) ==
  \E i \in 1..(Len(hay) - Len(needle) + 1) :
     SubSeq(hay, i, i + Len(needle) - 1) = needle

(* An optional value: <<>> is None / absent, <<v>> is v. *)
None == <<>>
Some(v) == <<v>>


(***************************************************************************)
(* Process-wide configuration, read once at import time.                   *)
(***************************************************************************)
AUTH_USER == "admin"
AUTH_PASS == "secret"
RECORD_TTL == <<"3600">>
(* The ZONE environment variable as the operator set it. *)
ZONE_ENV == <<DOT, "example", DOT, "com">>
async_ZONE == Strip(ZONE_ENV, {DOT, SP})
sync_ZONE == LStrip(ZONE_ENV, {DOT})

(***************************************************************************)
(* ipaddress.ip_address(address) accepts exactly an IPv4 or IPv6 literal:  *)
(* no surrounding blank, quote or line feed.  An address literal is one    *)
(* word of AddressWords.                                                   *)
(***************************************************************************)
AddressWords == {"10.0.0.5", "10.0.0.6", "192.0.2.1", "2001:db8::1"}

ip_address_ok(address) == Len(address) = 1 /\ address[1] \in AddressWords

is_valid_ip(address) == ip_address_ok(address)

valid_ip(address) == ip_address_ok(address)

(***************************************************************************)
(* HostType: dot-separated labels of letters, digits and hyphens, no       *)
(* label empty or starting or ending with a hyphen, nothing else.          *)
(* HostWords are the words made of letters and digits (and of inner dots   *)
(* between them).                                                          *)
(***************************************************************************)
HostWords == {"h1", "h2", "h3", "A", "TXT", "update", "add", "delete",
              "send", "60", "example", "com", "10.0.0.5", "10.0.0.6", "192.0.2.1"}

LabelOk(label) ==
  /\ label # <<>>
  /\ \A i \in 1..Len(label) : label[i] \in HostWords \cup {HYPHEN}
  /\ label[1] # HYPHEN
  /\ label[Len(label)] # HYPHEN

HostType(host) ==
  LET labels == Split(host, DOT)
  IN \A i \in 1..Len(labels) : LabelOk(labels[i])

(* str.upper() / str.lower() on the words a path segment can be. *)
Upper(w) ==
  CASE w = "a" -> "A"
    [] w = "txt" -> "TXT"
    [] w = "mx" -> "MX"
    [] OTHER -> w

Lower(w) ==
  CASE w = "UPDATE" -> "update"
    [] w = "DELETE" -> "delete"
    [] OTHER -> w

(***************************************************************************)
(* src/api.py: the credential check, the parameter validation the          *)
(* framework does from the signature, the value preparation and the        *)
(* building of the update file's content.                                  *)
(***************************************************************************)

(* HTTPBasic() refuses a request without credentials; get_current_username
   refuses a pair that is not the configured one. *)
get_current_username(creds) ==
  /\ creds # None
  /\ creds[1].username = AUTH_USER
  /\ creds[1].password = AUTH_PASS

(* record_type: RecordType, method: MethodType, host: list[HostType] is required. *)
update_record_params_ok(q) ==
  /\ q.record_type \in {"A", "TXT"}
  /\ q.method \in {"update", "delete"}
  /\ q.host # <<>>
  /\ \A i \in 1..Len(q.host) : HostType(q.host[i])

(* value = value.strip(" \"'") if value else "" *)
update_record_value(q) ==
  IF q.value = None THEN <<>> ELSE Strip(q.value[1], {SP, DQ, AP})

(* update_record_prepare without the check of the address. *)
update_record_prepare_unchecked(q) ==
  LET value == update_record_value(q)
  IN IF q.record_type = "A"
     THEN [err |-> "", record_value |-> IF value # <<>> THEN value ELSE q.client]
     ELSE IF q.method = "update" /\ value = <<>>
          THEN [err |-> "txt_empty", record_value |-> <<>>]
          ELSE [err |-> "",
                record_value |-> IF value # <<>>
                                 THEN <<DQ>> \o Replace(value, DQ, <<BS, DQ>>) \o <<DQ>>
                                 ELSE <<>>]

(* Lines 123-142: the error raised, or the record value. *)
update_record_prepare(q) ==
  LET value == update_record_value(q)
  IN IF q.record_type = "A"
     THEN IF value # <<>>
          THEN IF ~is_valid_ip(value)
               THEN [err |-> "not_a_valid_ip", record_value |-> <<>>]
               ELSE [err |-> "", record_value |-> value]
          ELSE [err |-> "", record_value |-> q.client]
     ELSE IF q.method = "update" /\ value = <<>>
          THEN [err |-> "txt_empty", record_value |-> <<>>]
          ELSE IF value # <<>>
               THEN [err |-> "",
                     record_value |-> <<DQ>> \o Replace(value, DQ, <<BS, DQ>>) \o <<DQ>>]
               ELSE [err |-> "", record_value |-> <<>>]

(* One pass of the loop of lines 147-150. *)
update_record_host_lines(record_host, record_type, method, record_value) ==
  <<"update", SP, "delete", SP>> \o record_host \o <<DOT>> \o async_ZONE
     \o <<SP, record_type, NL>>
  \o (IF method = "update"
      THEN <<"update", SP, "add", SP>> \o record_host \o <<DOT>> \o async_ZONE
             \o <<SP>> \o RECORD_TTL \o <<SP, record_type, SP>> \o record_value \o <<NL>>
      ELSE <<>>)

(* Lines 145-151. *)
update_record_file_content(host, record_type, method, record_value) ==
  <<"server", SP, "127.0.0.1", NL>>
  \o <<"zone", SP>> \o async_ZONE \o <<NL>>
  \o Concat([i \in 1..Len(host) |->
               update_record_host_lines(host[i], record_type, method, record_value)])
  \o <<"send", NL>>

(* str(list) of a list of strings, as the f-string of the message renders it. *)
ListRepr(items) ==
  <<"[">> \o Join([i \in 1..Len(items) |-> <<AP>> \o items[i] \o <<AP>>], <<COMMA, SP>>)
  \o <<"]">>

(* Lines 172-174. *)
update_record_message(host, record_type, method, record_value) ==
  IF method = "delete"
  THEN <<"Deleted record:", SP>> \o ListRepr(host) \o <<SP, record_type>>
  ELSE <<"Updated record:", SP>> \o ListRepr(host) \o <<SP, record_type, SP>> \o record_value

(***************************************************************************)
(* src/ddns-api/api.py: the same steps of ResourceHandler.get.             *)
(***************************************************************************)

(* verify without the comparison of the password. *)
verify_username_only(creds) ==
  creds # None /\ creds[1].username = AUTH_USER

(* login_required calls verify with the presented pair, or with two empty
   strings when the request carries no credentials. *)
verify(creds) ==
  LET username == IF creds = None THEN "" ELSE creds[1].username
      password == IF creds = None THEN "" ELSE creds[1].password
  IN IF ~(username # "" /\ password # "") THEN FALSE
     ELSE IF AUTH_USER = "" \/ AUTH_PASS = "" THEN FALSE
     ELSE username = AUTH_USER /\ password = AUTH_PASS

(* record_type.upper().strip(), method.lower().strip(): a path segment is
   one word, which strip() leaves as it is. *)
get_record_type(q) == Upper(q.record_type)

get_method(q) == Lower(q.method)

(* parser.parse_args(): the first host and value parameter, trimmed, '' when absent. *)
get_args_host(q) == IF q.host = <<>> THEN <<>> ELSE Strip(q.host[1], Whitespace)

get_args_value(q) == IF q.value = None THEN <<>> ELSE Strip(q.value[1], Whitespace)

(* Lines 97-100. *)
RECURSIVE get_hosts_of(_)
get_hosts_of(parts) ==
  IF parts = <<>> THEN <<>>
  ELSE (IF Strip(Head(parts), Whitespace) # <<>>
        THEN <<Strip(Head(parts), Whitespace) \o <<DOT>> \o sync_ZONE>>
        ELSE <<>>)
       \o get_hosts_of(Tail(parts))

get_hosts(q) == get_hosts_of(Split(get_args_host(q), COMMA))

(* request.headers.get('X-Real-IP', request.remote_addr) *)
get_real_ip(q) == IF q.real_ip = None THEN q.client ELSE q.real_ip[1]

(* Lines 82-122: the failure returned, or the record value. *)
get_prepare(q) ==
  LET record_type == get_record_type(q)
      method == get_method(q)
      args_value == get_args_value(q)
  IN IF record_type \notin {"A", "TXT"}
     THEN [err |-> "Unknown record", value |-> <<>>]
     ELSE IF method \notin {"update", "delete"}
     THEN [err |-> "Unknown method", value |-> <<>>]
     ELSE IF get_hosts(q) = <<>>
     THEN [err |-> "Missing host value", value |-> <<>>]
     ELSE IF record_type = "A"
     THEN IF args_value # <<>>
          THEN IF ~valid_ip(args_value)
               THEN [err |-> "Address invalid", value |-> <<>>]
               ELSE [err |-> "", value |-> args_value]
          ELSE [err |-> "", value |-> get_real_ip(q)]
     ELSE IF args_value = <<>> /\ method # "delete"
          THEN [err |-> "Empty TXT value", value |-> <<>>]
          ELSE [err |-> "", value |-> <<DQ>> \o Strip(args_value, {SP, DQ}) \o <<DQ>>]

(* One pass of the loop of lines 127-134. *)
get_host_lines(host, record_type, method, value) ==
  <<"update", SP, "delete", SP>> \o host \o <<SP, record_type, NL>>
  \o (IF method = "update"
      THEN <<"update", SP, "add", SP>> \o host \o <<SP>> \o RECORD_TTL
             \o <<SP, record_type, SP>> \o value \o <<NL>>
      ELSE <<>>)

(* Lines 125-135. *)
get_file_content(hosts, record_type, method, value) ==
  <<"server", SP, "localhost", NL>>
  \o <<"zone", SP>> \o sync_ZONE \o <<NL>>
  \o Concat([i \in 1..Len(hosts) |-> get_host_lines(hosts[i], record_type, method, value)])
  \o <<"send", NL>>

(* Lines 152-154. *)
get_message(hosts, record_type, method, value) ==
  IF method = "delete"
  THEN <<"Deleted record:", SP>> \o ListRepr(hosts) \o <<SP, record_type>>
  ELSE <<"Updated record:", SP>> \o ListRepr(hosts) \o <<SP, record_type, SP>> \o value

(***************************************************************************)
(* The child process, /usr/bin/nsupdate <file>: it reads the file line by  *)
(* line; "update delete" and "update add" lines join the pending update,   *)
(* "send" submits the pending update, which the name server applies as     *)
(* one unit in the order of its lines.  A line it cannot parse ends it     *)
(* with a non-zero status.  The zone is a set of records.                  *)
(***************************************************************************)

(* The lines of a text: the line feed ends a line. *)
Lines(text) ==
  LET parts == Split(text, NL)
  IN IF parts[Len(parts)] = <<>> THEN SubSeq(parts, 1, Len(parts) - 1) ELSE parts

(* One line as a directive: its blank-separated fields. *)
ParseLine(line) ==
  LET f == Split(line, SP)
      n == Len(f)
      bad == [op |-> "bad", name |-> <<>>, type |-> <<>>, ttl |-> <<>>, data |-> <<>>]
  IN IF n = 1 /\ f[1] = <<"send">>
     THEN [bad EXCEPT !.op = "send"]
     ELSE IF n = 2 /\ f[1] = <<"server">> /\ f[2] # <<>>
     THEN [bad EXCEPT !.op = "server", !.name = f[2]]
     ELSE IF n = 2 /\ f[1] = <<"zone">> /\ f[2] # <<>>
     THEN [bad EXCEPT !.op = "zone", !.name = f[2]]
     ELSE IF n = 4 /\ f[1] = <<"update">> /\ f[2] = <<"delete">>
             /\ f[3] # <<>> /\ f[4] \in {<<"A">>, <<"TXT">>}
     THEN [bad EXCEPT !.op = "delete", !.name = f[3], !.type = f[4]]
     ELSE IF n >= 6 /\ f[1] = <<"update">> /\ f[2] = <<"add">>
             /\ f[3] # <<>> /\ f[4] # <<>> /\ f[5] \in {<<"A">>, <<"TXT">>}
             /\ f[6] # <<>>
     THEN [bad EXCEPT !.op = "add", !.name = f[3], !.ttl = f[4], !.type = f[5],
                      !.data = Join(SubSeq(f, 6, n), <<SP>>)]
     ELSE bad

(* The pending update applied to the zone, line by line. *)
RECURSIVE ApplyUpdate(_, _)
ApplyUpdate(pending, z) ==
  IF pending = <<>> THEN z
  ELSE LET d == Head(pending)
           z1 == IF d.op = "delete"
                 THEN {rr \in z : ~(rr.name = d.name /\ rr.type = d.type)}
                 ELSE z \cup {[name |-> d.name, type |-> d.type, data |-> d.data]}
       IN ApplyUpdate(Tail(pending), z1)

(* The run of the tool over the lines it read: the zone it leaves and its
   exit status. *)
RECURSIVE RunLines(_, _, _)
RunLines(lines, pending, z) ==
  IF lines = <<>> THEN [zone |-> z, rc |-> 0]
  ELSE LET d == ParseLine(Head(lines))
       IN IF d.op = "bad" THEN [zone |-> z, rc |-> 1]
          ELSE IF d.op = "send" THEN RunLines(Tail(lines), <<>>, ApplyUpdate(pending, z))
          ELSE IF d.op \in {"delete", "add"}
               THEN RunLines(Tail(lines), Append(pending, d), z)
          ELSE RunLines(Tail(lines), pending, z)

nsupdate(text, z) == RunLines(Lines(text), <<>>, z)

(* A write of new at offset 0 of a file that holds old: open(.., 'w') has
   truncated the file, and a second writer that opened it meanwhile writes
   over the same offsets. *)
WriteAt0(old, new) ==
  IF Len(old) > Len(new) THEN new \o SubSeq(old, Len(new) + 1, Len(old)) ELSE new

(***************************************************************************)
(* Requests.  A request is what the client sends: the credentials of the   *)
(* Authorization header (None without the header), the two path segments,  *)
(* the host and value query parameters (host may be repeated), the address *)
(* of the connection and the X-Real-IP header.                             *)
(***************************************************************************)
NumReqs == 2
Reqs == 1..NumReqs

Request(creds, record_type, method, host, value, real_ip) ==
  [creds |-> creds, record_type |-> record_type, method |-> method, host |-> host,
   value |-> value, client |-> <<"192.0.2.1">>, real_ip |-> real_ip]

GoodCreds == Some([username |-> AUTH_USER, password |-> AUTH_PASS])

CredsIn == {None, GoodCreds,
            Some([username |-> AUTH_USER, password |-> "wrong"]),
            Some([username |-> "eve", password |-> AUTH_PASS]),
            Some([username |-> "", password |-> ""])}

TypesIn == {"A", "TXT", "a", "MX"}

MethodsIn == {"update", "delete", "UPDATE", "purge"}

(* A host parameter that carries a line feed and a directive of its own. *)
HostWithLines ==
  <<"h1", SP, "A", NL, "update", SP, "add", SP, "h3", DOT, "example", DOT, "com",
    SP, "60", SP, "A", SP, "10.0.0.6", NL, "update", SP, "delete", SP, "h2">>

HostsIn == {<<>>,
            << <<"h1">> >>,
            << <<"h1">>, <<"h2">> >>,
            << <<"h1">>, <<"h1">> >>,
            << <<"h1", COMMA, SP, "h2">> >>,
            << <<SP, COMMA>> >>,
            << <<"h1", HYPHEN>> >>,
            << HostWithLines >>}

ValuesIn == {None,
             Some(<<>>),
             Some(<<"10.0.0.5">>),
             Some(<<SP, "10.0.0.5">>),
             Some(<<"x">>),
             Some(<<DQ, DQ>>),
             Some(<<AP, "x", AP>>),
             Some(<<"x", DQ, "y">>),
             Some(<<"x", BS>>),
             Some(<<"x", SP, "y">>),
             Some(<<"x", NL, "y">>)}

RealIpIn == {None, Some(<<"x">>)}

(* The requests of the one-request-at-a-time specification. *)
SeqInputs ==
  {Request(c, t, m, h, v, x) :
     c \in CredsIn, t \in TypesIn, m \in MethodsIn, h \in HostsIn, v \in ValuesIn,
     x \in RealIpIn}

(* The requests of the concurrent specification. *)
ConcInputs ==
  {Request(GoodCreds, "A", "update", << <<"h1">> >>, Some(<<"10.0.0.5">>), None),
   Request(GoodCreds, "A", "update", << <<"h2">> >>, Some(<<"10.0.0.6">>), None),
   Request(GoodCreds, "A", "update", << <<"h1">> >>, Some(<<"10.0.0.6">>), None),
   Request(GoodCreds, "TXT", "update", << <<"h1">>, <<"h2">> >>, Some(<<"x">>), None),
   Request(GoodCreds, "A", "delete", << <<"h1">> >>, None, None),
   Request(GoodCreds, "A", "delete", << <<"h1">> >>, Some(<<"x">>), None),
   Request(GoodCreds, "A", "update", << <<"h1">> >>, Some(<<"x">>), None),
   Request(GoodCreds, "MX", "update", << <<"h1">> >>, None, None),
   Request(None, "A", "update", << <<"h1">> >>, Some(<<"10.0.0.5">>), None)}

(* The zone before any request: h1 holds a stale address. *)
InitZone ==
  {[name |-> <<"h1", DOT, "example", DOT, "com">>, type |-> <<"A">>, data |-> <<"10.0.0.9">>]}

(***************************************************************************)
(* State.                                                                  *)
(*   impl      which of the two programs serves: "async" or "sync"         *)
(*   req       the request each client sends                               *)
(*   pc        where each request is in its handler                        *)
(*   loop      async: the request whose coroutine runs on the event loop   *)
(*             between two awaits, 0 when the loop is free                 *)
(*   local     the handler's local variables once the value is prepared    *)
(*   file      <tmp>/nsupdate.txt: None, or Some(content)                  *)
(*   proc      the child process each request launched: its state, what   *)
(*             it read, its exit status and what it wrote to stderr        *)
(*   zone      the records of the zone                                     *)
(*   resp      the response each request got: None, or Some(response)      *)
(*   writes, launches   history: the writes of the file and the launches   *)
(*             of the tool each request made                               *)
(***************************************************************************)
VARIABLES impl, req, pc, loop, local, file, proc, zone, resp, writes, launches

vars == <<impl, req, pc, loop, local, file, proc, zone, resp, writes, launches>>

NoLocal == [hosts |-> <<>>, record_type |-> "", method |-> "", value |-> <<>>,
            file_content |-> <<>>]

NoProc == [st |-> "none", input |-> <<>>, rc |-> 0, stderr |-> <<>>]

Response(status, success, message, challenge) ==
  [status |-> status, success |-> success, message |-> message, challenge |-> challenge]

InitWith(requests, arrived) ==
  /\ impl \in {"async", "sync"}
  /\ req = requests
  /\ pc = [r \in Reqs |-> IF r \in arrived THEN "request" ELSE "absent"]
  /\ loop = 0
  /\ local = [r \in Reqs |-> NoLocal]
  /\ file = None
  /\ proc = [r \in Reqs |-> NoProc]
  /\ zone = InitZone
  /\ resp = [r \in Reqs |-> None]
  /\ writes = [r \in Reqs |-> 0]
  /\ launches = [r \in Reqs |-> 0]

(* Every client sends one request; the handlers run concurrently. *)
Init == \E requests \in [Reqs -> ConcInputs] : InitWith(requests, Reqs)

(* One client sends one request. *)
InitSeq ==
  \E q \in SeqInputs :
     InitWith([r \in Reqs |-> IF r = 1 THEN q
                              ELSE Request(None, "A", "update", <<>>, None, None)], {1})

(***************************************************************************)
(* src/api.py: update_record, one coroutine per request on one event loop. *)
(* A coroutine runs alone from one await to the next; the child processes  *)
(* run beside the loop.                                                    *)
(***************************************************************************)

(* Depends(get_current_username), solved before the parameters are read. *)
Async_Auth(r) ==
  /\ impl = "async"
  /\ pc[r] = "request"
  /\ IF get_current_username(req[r].creds)
     THEN /\ pc' = [pc EXCEPT ![r] = "params"]
          /\ resp' = resp
     ELSE /\ pc' = [pc EXCEPT ![r] = "done"]
          /\ resp' = [resp EXCEPT ![r] =
                Some(Response(401, "absent",
                              IF req[r].creds = None THEN <<"Not authenticated">>
                              ELSE <<"Incorrect username or password">>, TRUE))]
  /\ UNCHANGED <<impl, req, loop, local, file, proc, zone, writes, launches>>

(* The framework validates record_type, method and host against the signature. *)
Async_Params(r) ==
  /\ impl = "async"
  /\ pc[r] = "params"
  /\ IF update_record_params_ok(req[r])
     THEN /\ pc' = [pc EXCEPT ![r] = "handler"]
          /\ resp' = resp
     ELSE /\ pc' = [pc EXCEPT ![r] = "done"]
          /\ resp' = [resp EXCEPT ![r] =
                Some(Response(422, "absent", <<"Unprocessable Entity">>, FALSE))]
  /\ UNCHANGED <<impl, req, loop, local, file, proc, zone, writes, launches>>

(* Lines 122-151: the value is prepared and the file content built. *)
Async_Prepare(r) ==
  /\ impl = "async"
  /\ pc[r] = "handler"
  /\ loop = 0
  /\ LET q == req[r]
         p == update_record_prepare(q)
     IN IF p.err = "not_a_valid_ip"
        THEN /\ pc' = [pc EXCEPT ![r] = "done"]
             /\ resp' = [resp EXCEPT ![r] =
                   Some(Response(400, "absent", <<"Value for A record is not a valid IP">>, FALSE))]
             /\ UNCHANGED <<loop, local>>
        ELSE IF p.err = "txt_empty"
        THEN /\ pc' = [pc EXCEPT ![r] = "done"]
             /\ resp' = [resp EXCEPT ![r] =
                   Some(Response(400, "absent", <<"TXT record value cannot be empty">>, FALSE))]
             /\ UNCHANGED <<loop, local>>
        ELSE /\ pc' = [pc EXCEPT ![r] = "open"]
             /\ loop' = r
             /\ local' = [local EXCEPT ![r] =
                   [hosts |-> q.host, record_type |-> q.record_type, method |-> q.method,
                    value |-> p.record_value,
                    file_content |-> update_record_file_content(q.host, q.record_type,
                                                                q.method, p.record_value)]]
             /\ resp' = resp
  /\ UNCHANGED <<impl, req, file, proc, zone, writes, launches>>

(* Line 154, write_text: the file is opened for writing, which truncates it. *)
Async_Open(r) ==
  /\ impl = "async"
  /\ pc[r] = "open"
  /\ loop = r
  /\ file' = Some(<<>>)
  /\ pc' = [pc EXCEPT ![r] = "write"]
  /\ UNCHANGED <<impl, req, loop, local, proc, zone, resp, writes, launches>>

(* Line 154, write_text: the content is written and the file closed. *)
Async_Write(r) ==
  /\ impl = "async"
  /\ pc[r] = "write"
  /\ loop = r
  /\ file' = Some(WriteAt0(file[1], local[r].file_content))
  /\ writes' = [writes EXCEPT ![r] = @ + 1]
  /\ pc' = [pc EXCEPT ![r] = "spawn"]
  /\ UNCHANGED <<impl, req, loop, local, proc, zone, resp, launches>>

(* Async_Spawn with a wait that does not yield: the coroutine keeps the
   event loop while its child runs. *)
Async_Spawn_blocking(r) ==
  /\ impl = "async"
  /\ pc[r] = "spawn"
  /\ loop = r
  /\ \/ /\ proc' = [proc EXCEPT ![r] = [NoProc EXCEPT !.st = "running"]]
        /\ launches' = [launches EXCEPT ![r] = @ + 1]
        /\ pc' = [pc EXCEPT ![r] = "wait"]
        /\ UNCHANGED <<resp, loop>>
     \/ /\ pc' = [pc EXCEPT ![r] = "done"]
        /\ loop' = 0
        /\ resp' = [resp EXCEPT ![r] =
              Some(Response(500, "absent", <<"An error occured.">>, FALSE))]
        /\ UNCHANGED <<proc, launches>>
  /\ UNCHANGED <<impl, req, local, file, zone, writes>>

(* Lines 157-166: create_subprocess_exec launches the tool and the
   coroutine awaits it, or the launch raises and the handler answers 500. *)
Async_Spawn(r) ==
  /\ impl = "async"
  /\ pc[r] = "spawn"
  /\ loop = r
  /\ loop' = 0
  /\ \/ /\ proc' = [proc EXCEPT ![r] = [NoProc EXCEPT !.st = "running"]]
        /\ launches' = [launches EXCEPT ![r] = @ + 1]
        /\ pc' = [pc EXCEPT ![r] = "wait"]
        /\ resp' = resp
     \/ /\ pc' = [pc EXCEPT ![r] = "done"]
        /\ resp' = [resp EXCEPT ![r] =
              Some(Response(500, "absent", <<"An error occured.">>, FALSE))]
        /\ UNCHANGED <<proc, launches>>
  /\ UNCHANGED <<impl, req, local, file, zone, writes>>

(* Async_Finish without the test of the return code. *)
Async_Finish_any_returncode(r) ==
  /\ impl = "async"
  /\ pc[r] = "wait"
  /\ loop = 0
  /\ proc[r].st = "exited"
  /\ pc' = [pc EXCEPT ![r] = "done"]
  /\ resp' = [resp EXCEPT ![r] =
        Some(Response(200, "true",
                      update_record_message(local[r].hosts, local[r].record_type,
                                            local[r].method, local[r].value), FALSE))]
  /\ UNCHANGED <<impl, req, loop, local, file, proc, zone, writes, launches>>

(* Lines 163-176: communicate() returns once the child has exited. *)
Async_Finish(r) ==
  /\ impl = "async"
  /\ pc[r] = "wait"
  /\ loop = 0
  /\ proc[r].st = "exited"
  /\ pc' = [pc EXCEPT ![r] = "done"]
  /\ resp' = [resp EXCEPT ![r] =
        IF proc[r].rc # 0
        THEN Some(Response(500, "absent", <<"An error occured.">>, FALSE))
        ELSE Some(Response(200, "true",
                           update_record_message(local[r].hosts, local[r].record_type,
                                                 local[r].method, local[r].value), FALSE))]
  /\ UNCHANGED <<impl, req, loop, local, file, proc, zone, writes, launches>>

(***************************************************************************)
(* src/ddns-api/api.py: ResourceHandler.get, one thread per request; the   *)
(* threads interleave at every step.                                       *)
(***************************************************************************)

(* @AUTH.login_required *)
Sync_Auth(r) ==
  /\ impl = "sync"
  /\ pc[r] = "request"
  /\ IF verify(req[r].creds)
     THEN /\ pc' = [pc EXCEPT ![r] = "handler"]
          /\ resp' = resp
     ELSE /\ pc' = [pc EXCEPT ![r] = "done"]
          /\ resp' = [resp EXCEPT ![r] =
                Some(Response(401, "absent", <<"Unauthorized Access">>, TRUE))]
  /\ UNCHANGED <<impl, req, loop, local, file, proc, zone, writes, launches>>

(* Lines 82-135: the request is checked, the value prepared and the file
   content built; a failed check returns success False with status 200. *)
Sync_Prepare(r) ==
  /\ impl = "sync"
  /\ pc[r] = "handler"
  /\ LET q == req[r]
         p == get_prepare(q)
     IN IF p.err # ""
        THEN /\ pc' = [pc EXCEPT ![r] = "done"]
             /\ resp' = [resp EXCEPT ![r] = Some(Response(200, "false", <<p.err>>, FALSE))]
             /\ local' = local
        ELSE /\ pc' = [pc EXCEPT ![r] = "open"]
             /\ local' = [local EXCEPT ![r] =
                   [hosts |-> get_hosts(q), record_type |-> get_record_type(q),
                    method |-> get_method(q), value |-> p.value,
                    file_content |-> get_file_content(get_hosts(q), get_record_type(q),
                                                      get_method(q), p.value)]]
             /\ resp' = resp
  /\ UNCHANGED <<impl, req, loop, file, proc, zone, writes, launches>>

(* Line 138: open(update_filename, 'wt') truncates the file. *)
Sync_Open(r) ==
  /\ impl = "sync"
  /\ pc[r] = "open"
  /\ file' = Some(<<>>)
  /\ pc' = [pc EXCEPT ![r] = "write"]
  /\ UNCHANGED <<impl, req, loop, local, proc, zone, resp, writes, launches>>

(* Lines 139-140: the content is written and the file closed. *)
Sync_Write(r) ==
  /\ impl = "sync"
  /\ pc[r] = "write"
  /\ file' = Some(WriteAt0(file[1], local[r].file_content))
  /\ writes' = [writes EXCEPT ![r] = @ + 1]
  /\ pc' = [pc EXCEPT ![r] = "spawn"]
  /\ UNCHANGED <<impl, req, loop, local, proc, zone, resp, launches>>

(* Lines 142-146: subprocess.run launches the tool and waits for it, or
   the launch raises OSError, which no except clause of get catches: the
   framework answers 500 with its own body. *)
Sync_Run(r) ==
  /\ impl = "sync"
  /\ pc[r] = "spawn"
  /\ \/ /\ proc' = [proc EXCEPT ![r] = [NoProc EXCEPT !.st = "running"]]
        /\ launches' = [launches EXCEPT ![r] = @ + 1]
        /\ pc' = [pc EXCEPT ![r] = "wait"]
        /\ resp' = resp
     \/ /\ pc' = [pc EXCEPT ![r] = "done"]
        /\ resp' = [resp EXCEPT ![r] =
              Some(Response(500, "absent", <<"Internal Server Error">>, FALSE))]
        /\ UNCHANGED <<proc, launches>>
  /\ UNCHANGED <<impl, req, loop, local, file, zone, writes>>

(* Lines 146-155: run(check=True) returns, or raises CalledProcessError on
   a non-zero status. *)
Sync_Finish(r) ==
  /\ impl = "sync"
  /\ pc[r] = "wait"
  /\ proc[r].st = "exited"
  /\ pc' = [pc EXCEPT ![r] = "done"]
  /\ resp' = [resp EXCEPT ![r] =
        IF proc[r].rc # 0
        THEN Some(Response(200, "false", <<"Error updating zone">>, FALSE))
        ELSE Some(Response(200, "true",
                           get_message(local[r].hosts, local[r].record_type,
                                       local[r].method, local[r].value), FALSE))]
  /\ UNCHANGED <<impl, req, loop, local, file, proc, zone, writes, launches>>

(***************************************************************************)
(* The child process of request r, scheduled by the operating system.      *)
(***************************************************************************)

(* The tool reads the file named on its command line. *)
Tool_Read(r) ==
  /\ proc[r].st = "running"
  /\ file # None
  /\ proc' = [proc EXCEPT ![r] = [@ EXCEPT !.st = "read", !.input = file[1]]]
  /\ UNCHANGED <<impl, req, pc, loop, local, file, zone, resp, writes, launches>>

(* The tool submits what it read and exits; or the name server cannot be
   reached or refuses, and the tool exits with a non-zero status.  A failing
   tool reports on its standard error, which the handler captures. *)
Tool_Exit(r) ==
  /\ proc[r].st = "read"
  /\ \/ /\ zone' = zone
        /\ proc' = [proc EXCEPT ![r] =
              [@ EXCEPT !.st = "exited", !.rc = 2,
                        !.stderr = <<"update failed:", SP, "REFUSED">>]]
     \/ LET out == nsupdate(proc[r].input, zone)
        IN /\ zone' = out.zone
           /\ proc' = [proc EXCEPT ![r] =
                 [@ EXCEPT !.st = "exited", !.rc = out.rc,
                           !.stderr = IF out.rc = 0 THEN <<>> ELSE <<"syntax error">>]]
  /\ UNCHANGED <<impl, req, pc, loop, local, file, resp, writes, launches>>

Handler(r) ==
  \/ Async_Auth(r) \/ Async_Params(r) \/ Async_Prepare(r) \/ Async_Open(r)
  \/ Async_Write(r) \/ Async_Spawn(r) \/ Async_Finish(r)
  \/ Sync_Auth(r) \/ Sync_Prepare(r) \/ Sync_Open(r) \/ Sync_Write(r)
  \/ Sync_Run(r) \/ Sync_Finish(r)

Tool(r) == Tool_Read(r) \/ Tool_Exit(r)

Next == \E r \in Reqs : Handler(r) \/ Tool(r)

(* Concurrent requests. *)
Spec == Init /\ [][Next]_vars

(* One request at a time, over the wide set of requests. *)
SpecSeq == InitSeq /\ [][Next]_vars

(* The handlers are scheduled fairly; nothing makes the child process exit. *)
FairSpec == Spec /\ \A r \in Reqs : WF_vars(Handler(r))

(***************************************************************************)
(* The asynchronous service, src/api.py, with its second route, GET /ip.   *)
(* The path of a request is its record_type and method segments; the path  *)
(* /ip has the one segment "ip", which the router gives to get_ip.         *)
(***************************************************************************)
IpRequest == Request(None, "ip", "", <<>>, None, None)

Route(q) == IF q.record_type = "ip" /\ q.method = "" THEN "get_ip" ELSE "update_record"

(* src/api.py get_ip: a plain function, which the framework runs on a
   worker thread beside the event loop; no credentials are asked. *)
Async_get_ip(r) ==
  /\ impl = "async"
  /\ pc[r] = "ip"
  /\ pc' = [pc EXCEPT ![r] = "done"]
  /\ resp' = [resp EXCEPT ![r] = Some(Response(200, "absent", req[r].client, FALSE))]
  /\ UNCHANGED <<impl, req, loop, local, file, proc, zone, writes, launches>>

(* The requests of the specification with both routes. *)
StallInputs ==
  {Request(GoodCreds, "A", "update", << <<"h1">> >>, Some(<<"10.0.0.5">>), None),
   Request(GoodCreds, "TXT", "update", << <<"h2">> >>, Some(<<"x">>), None),
   IpRequest}

InitStall ==
  \E requests \in [Reqs -> StallInputs] :
     /\ impl = "async"
     /\ req = requests
     /\ pc = [r \in Reqs |-> IF Route(requests[r]) = "get_ip" THEN "ip" ELSE "request"]
     /\ loop = 0
     /\ local = [r \in Reqs |-> NoLocal]
     /\ file = None
     /\ proc = [r \in Reqs |-> NoProc]
     /\ zone = InitZone
     /\ resp = [r \in Reqs |-> None]
     /\ writes = [r \in Reqs |-> 0]
     /\ launches = [r \in Reqs |-> 0]

HandlerStall(r) ==
  \/ Async_Auth(r) \/ Async_Params(r) \/ Async_Prepare(r) \/ Async_Open(r)
  \/ Async_Write(r) \/ Async_Spawn(r) \/ Async_Finish(r) \/ Async_get_ip(r)

NextStall == \E r \in Reqs : HandlerStall(r) \/ Tool(r)

(* Every handler is scheduled fairly, and so is the child process of every
   request but the first: the child of request 1 may run forever. *)
StallSpec ==
  /\ InitStall
  /\ [][NextStall]_vars
  /\ \A r \in Reqs : WF_vars(HandlerStall(r))
  /\ \A r \in Reqs \ {1} : WF_vars(Tool(r))

(***************************************************************************)
(* Vocabulary of the properties.                                           *)
(***************************************************************************)

(* The presented pair is missing or is not the configured pair. *)
CredsMismatch(q) ==
  \/ q.creds = None
  \/ q.creds[1].username # AUTH_USER
  \/ q.creds[1].password # AUTH_PASS

(* The request passes the credential check and every validation of the
   program that serves. *)
Accepted(q) ==
  IF impl = "async"
  THEN get_current_username(q.creds) /\ update_record_params_ok(q)
       /\ update_record_prepare(q).err = ""
  ELSE verify(q.creds) /\ get_prepare(q).err = ""

MethodOf(q) == IF impl = "async" THEN q.method ELSE get_method(q)

TypeOf(q) == IF impl = "async" THEN q.record_type ELSE get_record_type(q)

(* The hosts of the request as the handler reads them, without the zone. *)
HostsOf(q) ==
  IF impl = "async" THEN {q.host[i] : i \in 1..Len(q.host)}
  ELSE LET parts == Split(get_args_host(q), COMMA)
       IN {Strip(parts[i], Whitespace) : i \in 1..Len(parts)} \ {<<>>}

(* The request has been answered. *)
Answered(r) == pc[r] = "done" /\ resp[r] # None

(* The child process of r has read its input. *)
HasRead(r) == proc[r].st \in {"read", "exited"}

(* The request left no trace: nothing built, written or launched. *)
NoTrace(r) ==
  /\ local[r] = NoLocal
  /\ writes[r] = 0
  /\ launches[r] = 0
  /\ proc[r] = NoProc

(***************************************************************************)
(* C1.  Concurrent accepted update requests with distinct hosts: what each *)
(* tool invocation reads is exactly the batch its own request built.       *)
(***************************************************************************)
C1_DistinctHostUpdates ==
  \A a \in Reqs :
     /\ pc[a] # "absent"
     /\ Accepted(req[a])
     /\ MethodOf(req[a]) = "update"
     /\ \A b \in Reqs \ {a} : HostsOf(req[a]) \cap HostsOf(req[b]) = {}

(* C1: with concurrent accepted updates of distinct hosts, the input every
   child process has read is the file content its own request built. *)
C1_ToolReadsOwnBatch ==
  C1_DistinctHostUpdates =>
     \A r \in Reqs : HasRead(r) => proc[r].input = local[r].file_content

(***************************************************************************)
(* C2.  Once a request that wrote the update file is answered, the file    *)
(* no longer exists.                                                       *)
(***************************************************************************)
C2_FileRemovedOnExit ==
  \A r \in Reqs : (Answered(r) /\ writes[r] > 0) => file = None

(***************************************************************************)
(* C3.  A request that launched the tool is eventually answered, also      *)
(* when the tool never exits.                                              *)
(***************************************************************************)
C3_LaunchedIsAnswered ==
  \A r \in Reqs : (pc[r] = "wait") ~> (pc[r] = "done")

(***************************************************************************)
(* C4.  A request that fails validation (unknown record type or method,    *)
(* missing host, a value for A that is no IP address, an empty value for a *)
(* TXT update) is answered with a failure before anything is built: it     *)
(* writes no file, launches no tool, and the file and the zone stay as     *)
(* they were.                                                              *)
(***************************************************************************)
C4_UnknownEnum(q) ==
  \/ Upper(q.record_type) \notin {"A", "TXT"}
  \/ Lower(q.method) \notin {"update", "delete"}

C4_MissingHost(q) == HostsOf(q) = {}

C4_InvalidIP(q) ==
  /\ Upper(q.record_type) = "A"
  /\ q.value # None
  /\ LET v == Strip(q.value[1], {SP, NL, DQ, AP})
     IN v # <<>> /\ ~(Len(v) = 1 /\ v[1] \in AddressWords)

C4_EmptyTxt(q) ==
  /\ Upper(q.record_type) = "TXT"
  /\ Lower(q.method) = "update"
  /\ q.value \in {None, Some(<<>>)}

C4_FailsValidation(q) ==
  /\ ~CredsMismatch(q)
  /\ C4_UnknownEnum(q) \/ C4_MissingHost(q) \/ C4_InvalidIP(q) \/ C4_EmptyTxt(q)

(* The response is one of the validation failures of the program that serves. *)
C4_ValidationResponse(x) ==
  IF impl = "async" THEN x.status \in {400, 422}
  ELSE /\ x.status = 200
       /\ x.success = "false"
       /\ x.message \in {<<"Unknown record">>, <<"Unknown method">>, <<"Missing host value">>,
                         <<"Address invalid">>, <<"Empty TXT value">>}

(* C4: a request that fails validation, told by what it sent or by the
   response it got, built, wrote and launched nothing, and the file and the
   zone are as they were. *)
C4_ValidationFailureLeavesNoTrace ==
  \A r \in Reqs :
     /\ (pc[r] # "absent" /\ C4_FailsValidation(req[r])) =>
           /\ NoTrace(r)
           /\ file = None
           /\ zone = InitZone
           /\ Answered(r) => (resp[r][1].success # "true" /\ C4_ValidationResponse(resp[r][1]))
     /\ (Answered(r) /\ C4_ValidationResponse(resp[r][1])) =>
           /\ NoTrace(r)
           /\ file = None
           /\ zone = InitZone

(* C4, witness: an authorized request with a value for A that is no address
   has been answered with the validation failure. *)
C4_Witness ==
  \E r \in Reqs :
     /\ Answered(r)
     /\ C4_FailsValidation(req[r])
     /\ C4_InvalidIP(req[r])
     /\ ~C4_UnknownEnum(req[r])
     /\ ~C4_MissingHost(req[r])
     /\ C4_ValidationResponse(resp[r][1])

(***************************************************************************)
(* C5.  A request whose credentials are missing or are not the configured  *)
(* pair is answered 401 with a challenge, before validation: nothing is    *)
(* built, no file is written and no tool is launched for it.               *)
(***************************************************************************)
C5_UnauthorizedLeavesNoTrace ==
  \A r \in Reqs :
     (pc[r] # "absent" /\ CredsMismatch(req[r])) =>
        /\ NoTrace(r)
        /\ file = None
        /\ pc[r] \in {"request", "done"}
        /\ pc[r] = "done" =>
              /\ resp[r] # None
              /\ resp[r][1].status = 401
              /\ resp[r][1].challenge
              /\ resp[r][1].success # "true"

(* C5, witness: a request with the configured username and a wrong password
   has been answered 401. *)
C5_Witness ==
  \E r \in Reqs :
     /\ Answered(r)
     /\ req[r].creds # None
     /\ req[r].creds[1].username = AUTH_USER
     /\ req[r].creds[1].password # AUTH_PASS
     /\ resp[r][1].status = 401

(***************************************************************************)
(* The batch as the tool reads it: the directives of the lines of the      *)
(* file content, and among them the delete and add directives.             *)
(***************************************************************************)
Directives(content) ==
  LET ls == Lines(content) IN [i \in 1..Len(ls) |-> ParseLine(ls[i])]

IsUpdateDirective(d) == d.op \in {"delete", "add"}

UpdateDirectives(content) == SelectSeq(Directives(content), IsUpdateDirective)

(* The name host i of request r has in the zone. *)
FqdnOf(r, i) ==
  IF impl = "async" THEN local[r].hosts[i] \o <<DOT>> \o async_ZONE ELSE local[r].hosts[i]

DeleteOf(name, type) ==
  [op |-> "delete", name |-> name, type |-> <<type>>, ttl |-> <<>>, data |-> <<>>]

AddOf(name, type, ttl, data) ==
  [op |-> "add", name |-> name, type |-> <<type>>, ttl |-> ttl, data |-> data]

(* The handler of r has built its batch. *)
Built(r) == local[r] # NoLocal

(***************************************************************************)
(* C6.  The batch of an accepted update request holds, for each host in    *)
(* the order of the host list, one delete directive followed at once by    *)
(* one add directive for the same name and type with the configured TTL    *)
(* and the resolved value, and no other delete or add directive.           *)
(***************************************************************************)
C6_UpdateBatchIsDeleteAddPairs ==
  \A r \in Reqs :
     (Built(r) /\ local[r].method = "update") =>
        LET u == UpdateDirectives(local[r].file_content)
            n == Len(local[r].hosts)
        IN /\ Len(u) = 2 * n
           /\ \A i \in 1..n :
                 /\ u[2 * i - 1] = DeleteOf(FqdnOf(r, i), local[r].record_type)
                 /\ u[2 * i] = AddOf(FqdnOf(r, i), local[r].record_type, RECORD_TTL,
                                     local[r].value)

(***************************************************************************)
(* C7.  The batch of an accepted delete request holds one delete directive *)
(* per host and no add directive.                                          *)
(***************************************************************************)
C7_DeleteBatchHasNoAdd ==
  \A r \in Reqs :
     (Built(r) /\ local[r].method = "delete") =>
        LET u == UpdateDirectives(local[r].file_content)
            n == Len(local[r].hosts)
        IN /\ Len(u) = n
           /\ \A i \in 1..n : u[i] = DeleteOf(FqdnOf(r, i), local[r].record_type)

(***************************************************************************)
(* C8.  Two delete requests that differ only in the value have the same    *)
(* outcome: both are accepted, both build the same batch, both get the     *)
(* same response, and the response does not show the value.                *)
(***************************************************************************)
C8_DeletesDifferingInValue(a, b) ==
  /\ a # b
  /\ pc[a] # "absent" /\ pc[b] # "absent"
  /\ MethodOf(req[a]) = "delete"
  /\ [req[a] EXCEPT !.value = None] = [req[b] EXCEPT !.value = None]

PastValidation(r) == pc[r] \notin {"absent", "request", "params", "handler"}

(* C8: two delete requests that differ only in the value are both past
   validation only with the same batch and, for the same tool outcome, the
   same response, which does not hold the value. *)
C8_DeleteIgnoresValue ==
  \A a, b \in Reqs :
     (C8_DeletesDifferingInValue(a, b) /\ PastValidation(a) /\ PastValidation(b)) =>
        /\ Built(a) <=> Built(b)
        /\ local[a].file_content = local[b].file_content
        /\ (Answered(a) /\ Answered(b) /\ proc[a].st = proc[b].st /\ proc[a].rc = proc[b].rc)
              => resp[a] = resp[b]
        /\ (Answered(a) /\ req[a].value # None /\ req[a].value[1] # <<>>)
              => ~Contains(resp[a][1].message, req[a].value[1])

(***************************************************************************)
(* C9.  A TXT update whose value is empty once the surrounding quotes and  *)
(* blanks are trimmed is refused, so no batch given to the tool holds a    *)
(* TXT add directive whose literal is the empty quoted string.             *)
(***************************************************************************)
C9_EmptyAfterTrim(q) ==
  q.value = None \/ Strip(q.value[1], {SP, NL, DQ}) = <<>>

(* C9: a TXT update whose value is empty after trimming leaves no trace and
   is not answered with success; no launched batch adds the literal "". *)
C9_EmptyTxtIsRefused ==
  \A r \in Reqs :
     /\ (/\ pc[r] # "absent"
         /\ ~CredsMismatch(req[r])
         /\ TypeOf(req[r]) = "TXT"
         /\ MethodOf(req[r]) = "update"
         /\ C9_EmptyAfterTrim(req[r])) =>
           /\ NoTrace(r)
           /\ Answered(r) => resp[r][1].success # "true"
     /\ launches[r] > 0 =>
           \A i \in DOMAIN Directives(local[r].file_content) :
              LET d == Directives(local[r].file_content)[i]
              IN ~(d.op = "add" /\ d.type = <<"TXT">> /\ d.data = <<DQ, DQ>>)

(***************************************************************************)
(* C10.  The literal of a TXT update is the trimmed value between two      *)
(* double quotes with every inner double quote and backslash escaped:      *)
(* reading the inside back (backslash-X as X) gives the trimmed value, and *)
(* the inside holds no double quote that is not escaped.                   *)
(***************************************************************************)
Dangling == <<"<dangling backslash>">>

RECURSIVE Unescape(_)
Unescape(s) ==
  IF s = <<>> THEN <<>>
  ELSE IF Head(s) = BS
       THEN IF Len(s) = 1 THEN Dangling
            ELSE <<s[2]>> \o Unescape(SubSeq(s, 3, Len(s)))
       ELSE <<Head(s)>> \o Unescape(Tail(s))

RECURSIVE HasBareQuote(_)
HasBareQuote(s) ==
  IF s = <<>> THEN FALSE
  ELSE IF Head(s) = BS
       THEN Len(s) = 1 \/ HasBareQuote(SubSeq(s, 3, Len(s)))
       ELSE Head(s) = DQ \/ HasBareQuote(Tail(s))

(* The value of the request as the handler trims it. *)
C10_TrimmedValue(q) ==
  IF impl = "async" THEN update_record_value(q) ELSE Strip(get_args_value(q), {SP, DQ})

(* C10: the literal of a built TXT update is quoted, holds no bare inner
   double quote, and reads back to the trimmed value. *)
C10_TxtLiteralRoundTrips ==
  \A r \in Reqs :
     (Built(r) /\ local[r].record_type = "TXT" /\ local[r].method = "update") =>
        LET lit == local[r].value
            inner == SubSeq(lit, 2, Len(lit) - 1)
        IN /\ Len(lit) >= 2
           /\ lit[1] = DQ
           /\ lit[Len(lit)] = DQ
           /\ ~HasBareQuote(inner)
           /\ Unescape(inner) = C10_TrimmedValue(req[r])

(***************************************************************************)
(* C11.  The value of every A add directive of a launched batch is the     *)
(* value the caller supplied, which is an IP address, or, when the caller  *)
(* supplied none, the address of the connection; nothing else the caller   *)
(* controls (a request header) becomes the value.                          *)
(***************************************************************************)

(* The value parameter as the handler that serves trims it, empty when absent. *)
C11_SuppliedValue(q) ==
  IF impl = "async" THEN update_record_value(q) ELSE get_args_value(q)

(* C11: in every launched batch the data of each A add directive is the
   supplied value, a valid IP address, or, without a supplied value, the
   address of the connection. *)
C11_AddValueIsValidatedOrClient ==
  \A r \in Reqs :
     launches[r] > 0 =>
        LET ds == Directives(local[r].file_content)
            supplied == C11_SuppliedValue(req[r])
        IN \A i \in DOMAIN ds :
              (ds[i].op = "add" /\ ds[i].type = <<"A">>) =>
                 \/ supplied # <<>> /\ ip_address_ok(supplied) /\ ds[i].data = supplied
                 \/ supplied = <<>> /\ ds[i].data = req[r].client

(***************************************************************************)
(* C12.  Every host of a launched batch satisfies the grammar of HostType  *)
(* (with the zone appended), and a request without any host is answered    *)
(* with the missing-host failure and leaves no trace.                      *)
(***************************************************************************)
C12_MissingHostResponse(x) ==
  IF impl = "async" THEN x.status = 422
  ELSE x.success = "false" /\ x.message = <<"Missing host value">>

(* C12: the hosts of a launched batch, as the handler listed them and as
   the directives name them, satisfy the grammar; an authorized request with
   a known type and method and no host is refused without a trace. *)
C12_HostsSatisfyGrammar ==
  \A r \in Reqs :
     /\ launches[r] > 0 =>
           /\ \A i \in 1..Len(local[r].hosts) : HostType(FqdnOf(r, i))
           /\ LET u == UpdateDirectives(local[r].file_content)
              IN \A i \in 1..Len(u) : HostType(u[i].name)
     /\ (/\ pc[r] # "absent"
         /\ ~CredsMismatch(req[r])
         /\ ~C4_UnknownEnum(req[r])
         /\ C4_MissingHost(req[r])) =>
           /\ NoTrace(r)
           /\ Answered(r) => C12_MissingHostResponse(resp[r][1])

(***************************************************************************)
(* C13.  Every failure of an authorized update request (a validation       *)
(* failure, a non-zero exit of the tool, a failed launch of the tool) is   *)
(* answered with a body that carries success = false and with an error     *)
(* status: a client error for validation, a server error for execution.    *)
(***************************************************************************)

(* The request failed before anything was written: a validation failure. *)
C13_FailedValidation(r) == writes[r] = 0 /\ launches[r] = 0

(* C13: an authorized request answered otherwise than with success = true
   got a body with success = false, with a 4xx status when it failed
   validation and a 5xx status when the execution failed. *)
C13_FailureIsStructured ==
  \A r \in Reqs :
     (Answered(r) /\ ~CredsMismatch(req[r]) /\ resp[r][1].success # "true") =>
        /\ resp[r][1].success = "false"
        /\ IF C13_FailedValidation(r)
           THEN resp[r][1].status \in 400..499
           ELSE resp[r][1].status \in 500..599

(***************************************************************************)
(* C14.  A request is answered with success = true only if its own tool    *)
(* was launched and exited with status 0; after a non-zero exit the answer *)
(* is a failure whose message is the fixed text of the handler and holds   *)
(* nothing of what the tool wrote.                                         *)
(***************************************************************************)
C14_GenericMessage ==
  IF impl = "async" THEN <<"An error occured.">> ELSE <<"Error updating zone">>

(* C14: success = true only after the request's own tool exited with 0; a
   non-zero exit is answered with the fixed message, without the stderr of
   the tool in it. *)
C14_SuccessOnlyAfterCleanExit ==
  \A r \in Reqs :
     Answered(r) =>
        /\ resp[r][1].success = "true" =>
              /\ launches[r] = 1
              /\ proc[r].st = "exited"
              /\ proc[r].rc = 0
        /\ (proc[r].st = "exited" /\ proc[r].rc # 0) =>
              /\ resp[r][1].success # "true"
              /\ resp[r][1].message = C14_GenericMessage
              /\ proc[r].stderr # <<>>
              /\ ~Contains(resp[r][1].message, proc[r].stderr)

(* C14, witness: a request whose tool exited with a non-zero status and
   wrote to stderr has been answered with a failure. *)
C14_Witness ==
  \E r \in Reqs :
     /\ Answered(r)
     /\ launches[r] = 1
     /\ proc[r].st = "exited"
     /\ proc[r].rc # 0
     /\ proc[r].stderr # <<>>
     /\ resp[r][1].success # "true"

(***************************************************************************)
(* C15.  The batch of an accepted update request, given to the tool twice  *)
(* in a row on any zone, leaves the zone the first run left; and after one *)
(* run every host of the request holds exactly one record of the request's *)
(* type, with the resolved value.                                          *)
(***************************************************************************)
C15_Name(h) == <<h, DOT, "example", DOT, "com">>

C15_Record(h, type, data) == [name |-> C15_Name(h), type |-> <<type>>, data |-> data]

(* The zones the batch is applied to. *)
C15_Zones ==
  {{},
   InitZone,
   {C15_Record("h1", "A", <<"10.0.0.8">>), C15_Record("h1", "A", <<"10.0.0.9">>),
    C15_Record("h1", "TXT", <<DQ, "old", DQ>>), C15_Record("h2", "TXT", <<DQ, "x", DQ>>),
    C15_Record("h3", "A", <<"10.0.0.7">>)}}

(* C15: for every built update batch and every zone, a second run of the
   tool changes nothing, and after the first run each host holds exactly the
   record of the request. *)
C15_UpdateIsIdempotent ==
  \A r \in Reqs :
     (Built(r) /\ local[r].method = "update") =>
        \A z \in C15_Zones :
           LET once == nsupdate(local[r].file_content, z).zone
               twice == nsupdate(local[r].file_content, once).zone
           IN /\ twice = once
              /\ \A i \in 1..Len(local[r].hosts) :
                    {rr \in once : rr.name = FqdnOf(r, i)
                                   /\ rr.type = <<local[r].record_type>>}
                      = {[name |-> FqdnOf(r, i), type |-> <<local[r].record_type>>,
                          data |-> local[r].value]}

(***************************************************************************)
(* C16.  A request answered with success = true had the directives of its  *)
(* own batch read by its tool invocation, under every interleaving of the  *)
(* concurrent requests.                                                    *)
(***************************************************************************)

(* C16: when a request is answered with success = true, every delete and
   add directive of the batch it built is among the directives its child
   process read. *)
C16_SuccessMeansOwnBatchRead ==
  \A r \in Reqs :
     (Answered(r) /\ resp[r][1].success = "true") =>
        LET own == UpdateDirectives(local[r].file_content)
            got == UpdateDirectives(proc[r].input)
        IN /\ HasRead(r)
           /\ \A i \in 1..Len(own) : \E j \in 1..Len(got) : got[j] = own[i]

(***************************************************************************)
(* C17.  Two concurrent accepted updates of the same host and type with    *)
(* different values, both with a tool that exits 0: the invocation that    *)
(* commits last leaves the host with exactly one record of the type, the   *)
(* value of its own request.                                               *)
(***************************************************************************)
C17_Conflicting(a, b) ==
  /\ a # b
  /\ pc[a] # "absent" /\ pc[b] # "absent"
  /\ Accepted(req[a]) /\ Accepted(req[b])
  /\ MethodOf(req[a]) = "update" /\ MethodOf(req[b]) = "update"
  /\ TypeOf(req[a]) = TypeOf(req[b])
  /\ HostsOf(req[a]) = HostsOf(req[b])
  /\ Built(a) /\ Built(b)
  /\ local[a].value # local[b].value

(* The child of r exits with status 0 in this step, after the child of
   every other request has exited with status 0: r commits last. *)
C17_CommitsLast(r) ==
  /\ proc[r].st = "read"
  /\ proc'[r].st = "exited"
  /\ proc'[r].rc = 0
  /\ \A b \in Reqs \ {r} :
        C17_Conflicting(r, b) /\ proc[b].st = "exited" /\ proc[b].rc = 0

(* C17: the step in which the last of the conflicting invocations commits
   leaves every host of its request with exactly the record of its request. *)
C17_LastCommitWins ==
  [][\A r \in Reqs :
        C17_CommitsLast(r) =>
           \A i \in 1..Len(local[r].hosts) :
              {rr \in zone' : rr.name = FqdnOf(r, i) /\ rr.type = <<local[r].record_type>>}
                = {[name |-> FqdnOf(r, i), type |-> <<local[r].record_type>>,
                    data |-> local[r].value]}]_vars

(***************************************************************************)
(* C18.  An accepted request writes the update file once and launches the  *)
(* tool once, and what it writes is: one server line, one zone line, the   *)
(* delete and add directives of its own hosts, all of them, in the order   *)
(* of the host list, and one send line, the last line.                     *)
(***************************************************************************)

(* The directives of the hosts of r, in the order of the host list. *)
C18_HostDirectives(r) ==
  Concat([i \in 1..Len(local[r].hosts) |->
            <<DeleteOf(FqdnOf(r, i), local[r].record_type)>>
            \o (IF local[r].method = "update"
                THEN <<AddOf(FqdnOf(r, i), local[r].record_type, RECORD_TTL, local[r].value)>>
                ELSE <<>>)])

C18_Shape(r) ==
  LET content == local[r].file_content
      ds == Directives(content)
      n == Len(ds)
  IN /\ n >= 3
     /\ content[Len(content)] = NL
     /\ ds[1].op = "server"
     /\ ds[2].op = "zone"
     /\ ds[n].op = "send"
     /\ SubSeq(ds, 3, n - 1) = C18_HostDirectives(r)

(* C18: a request writes and launches at most once; once its batch is
   written the file holds it, with the shape above; an answered request
   that built a batch wrote it once and launched the tool once, unless the
   launch itself failed. *)
C18_OneBatchOneInvocation ==
  \A r \in Reqs :
     /\ writes[r] <= 1
     /\ launches[r] <= 1
     /\ Built(r) => C18_Shape(r)
     /\ writes[r] = 1 => file = Some(local[r].file_content)
     /\ (Built(r) /\ pc[r] \in {"spawn", "wait", "done"}) => writes[r] = 1
     /\ (Built(r) /\ pc[r] \in {"wait", "done"}) =>
           \/ launches[r] = 1
           \/ Answered(r) /\ proc[r] = NoProc /\ resp[r][1].status = 500

(***************************************************************************)
(* C19.  In src/api.py a request that waits for its child process does not *)
(* hold the event loop: while the child of request 1 runs, for ever if it  *)
(* does, every other request, GET /ip or an update, is started and, under  *)
(* fair scheduling, answered.                                              *)
(***************************************************************************)

(* Request 1 waits for its child, which has not exited. *)
C19_FirstIsWaiting == impl = "async" /\ pc[1] = "wait" /\ proc[1].st # "exited"

(* C19: with the asynchronous handler, whenever request 1 waits for a
   child that has not exited, every other request is eventually answered. *)
C19_WaitingDoesNotStall ==
  \A r \in Reqs \ {1} : C19_FirstIsWaiting ~> Answered(r)

(* C19, witness: while request 1 still waits for its running child,
   another update request, which arrived no earlier, has been answered
   with success. *)
C19_Witness ==
  /\ C19_FirstIsWaiting
  /\ proc[1].st = "running"
  /\ \E r \in Reqs \ {1} :
        /\ Route(req[r]) = "update_record"
        /\ Answered(r)
        /\ resp[r][1].success = "true"

=============================================================================
